---- MODULE Spec2Model ----
(***************************************************************************)
(* Model of torus_proposal_app.py: the totals calculator (build_totals),   *)
(* the visit-frequency converter (compute_visits_per_month), the schedule  *)
(* recommender (compute_cleaning_schedule), the schedule table conversion, *)
(* the Word document (docx_from_agreement), text extraction from uploads,  *)
(* and the Streamlit script: the widgets that build ProposalInputs, the    *)
(* address and add-on lists, the schedule editor and the RFP analyzer.     *)
(*                                                                         *)
(* Numbers.  The code computes in binary floating point.  Here every money *)
(* amount is an exact integer count of units of 1/300 dollar (Dollar ==    *)
(* 300 units), so that "/ 3.0" on a whole-dollar price and "* pct / 100.0" *)
(* on a multiple of a third of a dollar are exact; ExactInputs states the  *)
(* divisibility the input sets guarantee.  sales_tax_percent is a whole    *)
(* number of percentage points.  visits_per_week is held in half visits    *)
(* (the widget's step is 0.5), so 10 stands for 5.0 visits per week.       *)
(* Text (add-on names, floor_types) is a sequence of one-character strings *)
(* so that strip(), lower() and the "in" substring test are computed.      *)
(***************************************************************************)
EXTENDS Integers, Sequences, FiniteSets, TLC

VARIABLES
    pc,            \* "input": p not yet handed to a function; "totals": build_totals returned;
                   \* "schedule": compute_cleaning_schedule returned; "app": a script run finished
    p,             \* the ProposalInputs object (the fields the modelled code reads)
    totals,        \* the dict build_totals(p) returned, or NoTotals
    default_rows,  \* the list compute_cleaning_schedule(p) returned
    widgets,       \* the values of the rendered pricing widgets of the Streamlit script
    session,       \* st.session_state: the two lists, the schedule table, the analysis, the prefills
    event,         \* what the last button click did (its handler's outcome)
    files,         \* the working directory: which template files exist, the template's styles
    tuned_schedule_rows,  \* df_to_schedule_rows(edited_df) of the last script run, line 989
    docx,          \* the outcome of the last docx_from_agreement call, or NoDocx
    upload,        \* the uploaded file handed to extract_text_from_upload
    extracted      \* the outcome of extract_text_from_upload, or NoText

vars == <<pc, p, totals, default_rows, widgets, session, event, files,
          tuned_schedule_rows, docx, upload, extracted>>


-----------------------------------------------------------------------------
(* Bounds of the model *)

MaxAddons == 2          \* longest additional_services list enumerated
MaxDays == 7            \* largest days_per_week enumerated
MaxRooms == 1           \* largest room count enumerated
MaxVisitHalves == 14    \* largest visits_per_week enumerated, in half visits

Dollar == 3 * 100       \* model units per dollar

-----------------------------------------------------------------------------
(* Text helpers *)

\* CHECK, line 27: the check-mark character, written here in ASCII
CHECK == "v"

Whitespace == {" ", "\t", "\n"}

UpperCase == <<"A","B","C","D","E","F","G","H","I","J","K","L","M",
               "N","O","P","Q","R","S","T","U","V","W","X","Y","Z">>
LowerCase == <<"a","b","c","d","e","f","g","h","i","j","k","l","m",
               "n","o","p","q","r","s","t","u","v","w","x","y","z">>

\* str.lower() on one character
LowerChar(c) ==
    IF \E i \in 1..Len(UpperCase) : UpperCase[i] = c
    THEN LowerCase[CHOOSE i \in 1..Len(UpperCase) : UpperCase[i] = c]
    ELSE c

\* str.lower()
lower(s) == [i \in 1..Len(s) |-> LowerChar(s[i])]

\* str.lstrip() / str.rstrip() / str.strip()
RECURSIVE lstrip(_)
lstrip(s) ==
    IF s # <<>> /\ Head(s) \in Whitespace THEN lstrip(Tail(s)) ELSE s

RECURSIVE rstrip(_)
rstrip(s) ==
    IF s # <<>> /\ s[Len(s)] \in Whitespace
    THEN rstrip(SubSeq(s, 1, Len(s) - 1))
    ELSE s

strip(s) == rstrip(lstrip(s))

\* the Python test  k in t  on strings: k occurs in t as a contiguous substring
Contains(t, k) ==
    \E i \in 0..(Len(t) - Len(k)) : SubSeq(t, i + 1, i + Len(k)) = k

\* the mutant: the text is matched as typed, without lower()
has_keyword_CaseSensitive(text, keywords) ==
    \E j \in 1..Len(keywords) : Contains(text, keywords[j])

\* _has_keyword(text, keywords): keywords is a sequence of texts
has_keyword(text, keywords) ==
    LET t == lower(text)
    IN  \E j \in 1..Len(keywords) : Contains(t, lower(keywords[j]))

-----------------------------------------------------------------------------
(* Helpers *)

\* round(): Python 3 rounds an exact tie to the even neighbour.  num/den >= 0.
RoundHalfEven(num, den) ==
    LET fl == num \div den
        r2 == 2 * (num % den)
    IN  IF r2 < den THEN fl
        ELSE IF r2 > den THEN fl + 1
        ELSE IF fl % 2 = 0 THEN fl ELSE fl + 1

\* int(round(float(visits_per_week) * (52.0 / 12.0))), visits_per_week in half visits
compute_visits_per_month(visits_per_week) ==
    RoundHalfEven(visits_per_week * 52, 12 * 2)

-----------------------------------------------------------------------------
(* build_totals *)

NoTotals == [none |-> TRUE]

\* the mutant: the else branch reads visits_per_week instead of visits_per_month
BaseMonthly_WeeklyVisits(q) ==
    IF q.pricing_mode = "Monthly Fixed" THEN q.monthly_fixed_price
    ELSE IF q.pricing_mode = "Per Sq Ft" THEN q.rate_per_sqft * q.square_footage
    ELSE q.rate_per_visit * q.visits_per_week

\* base_monthly, lines 130-141
BaseMonthly(q) ==
    IF q.pricing_mode = "Monthly Fixed" THEN q.monthly_fixed_price
    ELSE IF q.pricing_mode = "Per Sq Ft" THEN q.rate_per_sqft * q.square_footage
    ELSE q.rate_per_visit * q.visits_per_month

\* the mutant: the name is tested without strip() and a price of 0 is let through
RECURSIVE AddonsLoop_NoFilter(_, _)
AddonsLoop_NoFilter(items, acc) ==
    IF items = <<>> THEN acc
    ELSE LET item == Head(items)
             name == item.name
             price == item.price
         IN  IF name # <<>> /\ price >= 0
             THEN AddonsLoop_NoFilter(Tail(items),
                      [total |-> acc.total + price,
                       lines |-> Append(acc.lines, [name |-> name, price |-> price])])
             ELSE AddonsLoop_NoFilter(Tail(items), acc)

\* the for loop of lines 145-150; acc is (addons_total, addons_lines).
\* A line  "* name: money(price)"  is kept as the pair it is formatted from.
RECURSIVE AddonsLoopBody(_, _)
AddonsLoopBody(items, acc) ==
    IF items = <<>> THEN acc
    ELSE LET item == Head(items)
             name == strip(item.name)
             price == item.price
         IN  IF name # <<>> /\ price > 0
             THEN AddonsLoopBody(Tail(items),
                      [total |-> acc.total + price,
                       lines |-> Append(acc.lines, [name |-> name, price |-> price])])
             ELSE AddonsLoopBody(Tail(items), acc)

AddonsLoop(items, acc) == AddonsLoopBody(items, acc)

\* addons_included_monthly, lines 152-153
AddonsIncluded(q, addons_total) ==
    IF q.include_addons_in_total = "Yes" THEN addons_total ELSE 0

\* the mutant: a one-time deep clean is amortised like a quarterly one
DeepClean_AmortiseOneTime(q) ==
    IF q.deep_clean_option = "One-time"
    THEN [one_time |-> q.deep_clean_price, quarterly |-> 0,
          monthly_equiv |-> q.deep_clean_price \div 3]
    ELSE IF q.deep_clean_option = "Quarterly"
    THEN [one_time |-> 0, quarterly |-> q.deep_clean_price,
          monthly_equiv |-> q.deep_clean_price \div 3]
    ELSE [one_time |-> 0, quarterly |-> 0, monthly_equiv |-> 0]

\* the deep-clean fields, lines 155-162
DeepClean(q) ==
    IF q.deep_clean_option = "One-time"
    THEN [one_time |-> q.deep_clean_price, quarterly |-> 0, monthly_equiv |-> 0]
    ELSE IF q.deep_clean_option = "Quarterly"
    THEN [one_time |-> 0, quarterly |-> q.deep_clean_price,
          monthly_equiv |-> q.deep_clean_price \div 3]
    ELSE [one_time |-> 0, quarterly |-> 0, monthly_equiv |-> 0]

Max(a, b) == IF a >= b THEN a ELSE b

\* the mutant: the percentage is used as given, without max(0.0, ...)
TaxPercentUsed_NoClamp(q) == q.sales_tax_percent

\* max(0.0, float(p.sales_tax_percent)), line 166 (the division by 100 is in MonthlyTax)
TaxPercentUsed(q) == Max(0, q.sales_tax_percent)

\* the mutant: the percentage is not divided by 100
MonthlyTax_NoPercent(q, monthly_subtotal) == monthly_subtotal * TaxPercentUsed(q)

\* monthly_tax = monthly_subtotal * tax_rate, lines 166-167
MonthlyTax(q, monthly_subtotal) == (monthly_subtotal * TaxPercentUsed(q)) \div 100

\* the mutant: the override is ignored
Compensation_IgnoreOverride(q, monthly_total_with_tax) == monthly_total_with_tax

\* compensation_monthly, lines 170-175
Compensation(q, monthly_total_with_tax) ==
    IF q.compensation_mode = "Override" THEN q.compensation_override
    ELSE monthly_total_with_tax

\* build_totals(p), lines 129-192 (the two *_explain strings are not modelled)
build_totals(q) ==
    LET base_monthly == BaseMonthly(q)
        addons == AddonsLoop(q.additional_services, [total |-> 0, lines |-> <<>>])
        addons_total == addons.total
        addons_included_monthly == AddonsIncluded(q, addons_total)
        dc == DeepClean(q)
        monthly_subtotal == base_monthly + addons_included_monthly + dc.monthly_equiv
        monthly_tax == MonthlyTax(q, monthly_subtotal)
        monthly_total_with_tax == monthly_subtotal + monthly_tax
    IN  [base_monthly |-> base_monthly,
         addons_total |-> addons_total,
         addons_lines |-> addons.lines,
         include_addons |-> (q.include_addons_in_total = "Yes"),
         addons_included_monthly |-> addons_included_monthly,
         deep_clean_one_time |-> dc.one_time,
         deep_clean_quarterly |-> dc.quarterly,
         deep_clean_monthly_equiv |-> dc.monthly_equiv,
         monthly_subtotal |-> monthly_subtotal,
         monthly_tax |-> monthly_tax,
         monthly_total_with_tax |-> monthly_total_with_tax,
         compensation_monthly |-> Compensation(q, monthly_total_with_tax)]

-----------------------------------------------------------------------------
(* compute_cleaning_schedule *)

Mark(b) == IF b THEN CHECK ELSE ""

Row(task, daily, weekly, monthly) == <<task, daily, weekly, monthly>>

Txt_carpet == <<"c","a","r","p","e","t">>
Txt_vct == <<"v","c","t">>
Txt_vinyl == <<"v","i","n","y","l">>
Txt_epoxy == <<"e","p","o","x","y">>
Txt_tile == <<"t","i","l","e">>
Txt_hard == <<"h","a","r","d">>
Txt_concrete == <<"c","o","n","c","r","e","t","e">>

\* lines 201-205
has_carpet(q) == has_keyword(q.floor_types, <<Txt_carpet>>)
has_vct(q) == has_keyword(q.floor_types, <<Txt_vct, Txt_vinyl>>)
has_epoxy(q) == has_keyword(q.floor_types, <<Txt_epoxy>>)
has_tile(q) == has_keyword(q.floor_types, <<Txt_tile>>)
hard_floors(q) ==
    has_vct(q) \/ has_epoxy(q) \/ has_tile(q)
        \/ has_keyword(q.floor_types, <<Txt_hard, Txt_concrete>>)

\* the mutant: the weekly mark is given for d in (0, 1, 2)
CoreRows_ZeroWeekly(q, d) ==
    << Row("Empty trash & replace liners", Mark(d >= 3), Mark(d \in {0, 1, 2}), ""),
       Row("Clean/disinfect high-touch points (handles, switches, rails)",
           Mark(d >= 3), Mark(d \in {0, 1, 2}), "") >>

\* the mutant: the two rows use the d >= 5 threshold of the dusting rows
CoreRows_FiveDays(q, d) ==
    << Row("Empty trash & replace liners", Mark(d >= 5), Mark(d \in {1, 2, 3, 4}), ""),
       Row("Clean/disinfect high-touch points (handles, switches, rails)",
           Mark(d >= 5), Mark(d \in {1, 2, 3, 4}), "") >>

\* lines 208-209
CoreRows(q, d) ==
    << Row("Empty trash & replace liners", Mark(d >= 3), Mark(d \in {1, 2}), ""),
       Row("Clean/disinfect high-touch points (handles, switches, rails)",
           Mark(d >= 3), Mark(d \in {1, 2}), "") >>

\* lines 211-212
RestroomRows(q, d) ==
    IF q.num_bathrooms > 0
    THEN << Row("Clean & disinfect restrooms; restock as applicable",
                Mark(d >= 3), Mark(d \in {1, 2}), "") >>
    ELSE << >>

\* the mutant: "and" where the code has "or"
BreakRoomRows_And(q, d) ==
    IF q.num_break_rooms > 0 /\ q.num_kitchens > 0
    THEN << Row("Break rooms/kitchens: counters, sinks, exterior appliances",
                Mark(d >= 5), Mark(d \in {1, 2, 3, 4}), "") >>
    ELSE << >>

\* lines 214-215
BreakRoomRows(q, d) ==
    IF q.num_break_rooms > 0 \/ q.num_kitchens > 0
    THEN << Row("Break rooms/kitchens: counters, sinks, exterior appliances",
                Mark(d >= 5), Mark(d \in {1, 2, 3, 4}), "") >>
    ELSE << >>

\* lines 217-218
DustGlassRows(q, d) ==
    << Row("Dust horizontal surfaces (accessible)", Mark(d >= 5), Mark(d \in {1, 2, 3, 4}), ""),
       Row("Spot clean glass & mirrors (interior)", Mark(d >= 5), Mark(d \in {1, 2, 3, 4}), "") >>

\* lines 220-223
CarpetRows(q, d) ==
    IF has_carpet(q)
    THEN << Row("Vacuum carpeted areas (as applicable)", Mark(d >= 3), Mark(d \in {1, 2}), ""),
            Row("Spot treat carpet stains (as needed)", Mark(d >= 5), Mark(d \in {1, 2, 3, 4}), ""),
            Row("Carpet extraction / shampoo (as scheduled)", "", "", CHECK) >>
    ELSE << >>

\* lines 225-227
HardFloorRows(q, d) ==
    IF hard_floors(q)
    THEN << Row("Damp mop hard floors (as applicable)", Mark(d >= 5), Mark(d \in {1, 2, 3, 4}), ""),
            Row("Detail floor scrubbing / machine scrub", "", Mark(d >= 3), CHECK) >>
    ELSE << >>

\* lines 229-230
MonthlyRows(q, d) ==
    << Row("High dusting (vents, ledges, corners)", "", "", CHECK),
       Row("Baseboards / detail edges (as applicable)", "", "", CHECK) >>

\* lines 232-234
VctRows(q, d) ==
    IF has_vct(q)
    THEN << Row("VCT maintenance (buff/burnish if applicable)", "", "", CHECK),
            Row("Strip & wax (as quoted/needed)", "", "", CHECK) >>
    ELSE << >>

\* the mutant: the locker-room row uses the d >= 5 threshold
LockerRows_FiveDays(q, d) ==
    IF q.num_locker_rooms > 0
    THEN << Row("Locker rooms: clean/disinfect & mop", Mark(d >= 5), Mark(d \in {1, 2, 3, 4}), "") >>
    ELSE << >>

\* lines 236-237
LockerRows(q, d) ==
    IF q.num_locker_rooms > 0
    THEN << Row("Locker rooms: clean/disinfect & mop", Mark(d >= 3), Mark(d \in {1, 2}), "") >>
    ELSE << >>

\* lines 239-240
PorterRows(q, d) ==
    IF q.day_porter_needed = "Yes"
    THEN << Row("Day porter tasks (restroom checks, spills, touch-ups)", CHECK, "", "") >>
    ELSE << >>

\* lines 242-243
DeepCleanRows(q, d) ==
    IF q.deep_clean_option # "None"
    THEN << Row("Deep clean tasks (per agreement)", "", "", CHECK) >>
    ELSE << >>

\* compute_cleaning_schedule(p), lines 198-245: the appends in the code's order
compute_cleaning_schedule(q) ==
    LET d == q.days_per_week
    IN  CoreRows(q, d) \o RestroomRows(q, d) \o BreakRoomRows(q, d)
          \o DustGlassRows(q, d) \o CarpetRows(q, d) \o HardFloorRows(q, d)
          \o MonthlyRows(q, d) \o VctRows(q, d) \o LockerRows(q, d)
          \o PorterRows(q, d) \o DeepCleanRows(q, d)

-----------------------------------------------------------------------------
(* The values the widgets offer, and the values enumerated for them *)

PricingModes == {"Monthly Fixed", "Per Sq Ft", "Per Visit"}          \* line 759
DeepCleanOptions == {"None", "One-time", "Quarterly"}                \* line 785
CompensationModes == {"Auto (calculated)", "Override"}               \* line 902
YesNo == {"Yes", "No"}

FixedPrices == {0, 500 * Dollar}        \* monthly_fixed_price
SqftRates == {0, 15}                    \* rate_per_sqft: 15 units = $0.05 per sq ft
SquareFootages == {0, 1000}             \* square_footage (the widget steps by 100)
VisitRates == {0, 150 * Dollar}         \* rate_per_visit
MonthlyVisits == {0, 22}                \* visits_per_month, as a field of its own
DeepCleanPrices == {0, 300 * Dollar}    \* deep_clean_price
TaxPercents == {-5, 0, 7}               \* sales_tax_percent handed to build_totals
WidgetTaxPercents == {0, 7}             \* the widget has min_value=0.0
Overrides == {0, 500 * Dollar}          \* compensation_override

Name_empty == << >>
Name_blank == <<" ">>
Name_A == <<"A">>
Name_padB == <<" ", "B", " ">>

\* the entries an additional_services list is drawn from
AddonPool ==
    { [name |-> Name_empty, price |-> 25 * Dollar],
      [name |-> Name_blank, price |-> 25 * Dollar],
      [name |-> Name_A, price |-> 0],
      [name |-> Name_A, price |-> 25 * Dollar],
      [name |-> Name_padB, price |-> 50 * Dollar] }

\* all lists over S of length 0..n
SeqsUpTo(S, n) == UNION { [1..k -> S] : k \in 0..n }

\* st.session_state.addons as first set, line 866
InitialAddons == << [name |-> Name_empty, price |-> 0] >>

AddonSamples ==
    { InitialAddons,
      << [name |-> Name_A, price |-> 25 * Dollar] >>,
      << [name |-> Name_padB, price |-> 50 * Dollar],
         [name |-> Name_blank, price |-> 25 * Dollar],
         [name |-> Name_A, price |-> 25 * Dollar] >> }

Text_none == << >>
Text_Carpet == <<"C","a","r","p","e","t">>
Text_VCT == <<"V","C","T">>
Text_Epoxy == <<"E","p","o","x","y">>
Text_wood == <<"w","o","o","d">>
Text_CarpetTile == <<"C","a","r","p","e","t",";"," ","T","i","l","e">>

Text_VINYL == <<"V","I","N","Y","L">>
Text_Hardwood == <<"H","a","r","d","w","o","o","d">>
Text_concrete == <<"c","o","n","c","r","e","t","e">>
Text_car_pet == <<"c","a","r"," ","p","e","t">>

FloorTexts ==
    {Text_none, Text_Carpet, Text_VCT, Text_Epoxy, Text_wood, Text_CarpetTile,
     Text_VINYL, Text_Hardwood, Text_concrete, Text_car_pet}

-----------------------------------------------------------------------------
(* The schedule table of the editor and its conversion, lines 248-265.  A   *)
(* table is a sequence of rows [Task, Daily, Weekly, Monthly]; a Task cell  *)
(* is a text or None (a cell nobody filled in), a frequency cell a Boolean. *)

None == << "<None>" >>

\* Python's str(): the text itself, and "None" for None
str(cell) == IF cell = None THEN <<"N","o","n","e">> ELSE cell

DfRow(task, d, w, m) == [Task |-> task, Daily |-> d, Weekly |-> w, Monthly |-> m]

\* lines 248-252; a task literal of the recommender becomes a text of one piece
schedule_rows_to_df(rows) ==
    [i \in 1..Len(rows) |->
        DfRow(<< rows[i][1] >>, rows[i][2] = CHECK, rows[i][3] = CHECK, rows[i][4] = CHECK)]

\* lines 255-265: task = str(r.get("Task", "")).strip(); rows with an empty
\* task are skipped, the others appended in order
df_to_schedule_rows(df) ==
    LET converted == [i \in 1..Len(df) |->
            << strip(str(df[i].Task)), Mark(df[i].Daily), Mark(df[i].Weekly),
               Mark(df[i].Monthly) >>]
        kept(row) == row[1] # << >>
    IN  SelectSeq(converted, kept)

\* lines 115-121
clean_list(items) ==
    LET stripped == [i \in 1..Len(items) |-> strip(items[i])]
        nonempty(s) == s # << >>
    IN  SelectSeq(stripped, nonempty)

-----------------------------------------------------------------------------
(* The Word document, lines 271-302 and 493-539.  The file system is a      *)
(* record: the names that exist in the working directory and the styles the *)
(* file Torus_Template.docx defines.  A style is looked up by name when it  *)
(* is assigned; python-docx raises KeyError for a name the document lacks.  *)

template_path == "Torus_Template.docx"
indicator_path == "proposal_template.docx"

\* the styles of python-docx's built-in default document that the code names
DefaultStyles == {"List Bullet", "Table Grid"}

\* line 495: Document(template_path) if os.path.exists(template_path) else Document()
Document(fs) ==
    IF template_path \in fs.exists
    THEN [template |-> template_path, styles |-> fs.template_styles]
    ELSE [template |-> "", styles |-> DefaultStyles]

Paragraph(text, style) == [text |-> text, style |-> style]

\* lines 296-302; the result is the paragraphs added, or a raised KeyError
add_address_bullets(doc, addresses) ==
    LET a == clean_list(addresses)
    IN  IF a = << >>
        THEN [raised |-> FALSE, paragraphs |-> << Paragraph(<< "(not provided)" >>, "") >>]
        ELSE IF "List Bullet" \notin doc.styles
        THEN [raised |-> TRUE, paragraphs |-> << >>]
        ELSE [raised |-> FALSE,
              paragraphs |-> [i \in 1..Len(a) |-> Paragraph(a[i], "List Bullet")]]

HeaderRow == << << "Task" >>, "Daily", "Weekly", "Monthly" >>

\* the mutant: the frequency cells are left empty
add_scope_of_work_table_NoMarks(doc, schedule_rows) ==
    IF "Table Grid" \notin doc.styles
    THEN [raised |-> TRUE, table |-> << >>]
    ELSE [raised |-> FALSE,
          table |-> << HeaderRow >> \o
                    [i \in 1..Len(schedule_rows) |-> << schedule_rows[i][1], "", "", "" >>]]

\* lines 271-293: table.style = "Table Grid", the header, one row per schedule row
add_scope_of_work_table(doc, schedule_rows) ==
    IF "Table Grid" \notin doc.styles
    THEN [raised |-> TRUE, table |-> << >>]
    ELSE [raised |-> FALSE, table |-> << HeaderRow >> \o schedule_rows]

NoDocx == [done |-> FALSE, raised |-> FALSE, template |-> "", bullets |-> << >>, table |-> << >>]

\* lines 493-539.  The agreement text always holds the two placeholder lines,
\* the addresses one (line 449) before the table one (line 457); an exception
\* of either helper leaves docx_from_agreement at once.
docx_from_agreement(schedule_rows, addresses, fs) ==
    LET doc == Document(fs)
        bullets == add_address_bullets(doc, addresses)
        tbl == add_scope_of_work_table(doc, schedule_rows)
    IN  IF bullets.raised \/ tbl.raised
        THEN [done |-> TRUE, raised |-> TRUE, template |-> doc.template,
              bullets |-> << >>, table |-> << >>]
        ELSE [done |-> TRUE, raised |-> FALSE, template |-> doc.template,
              bullets |-> bullets.paragraphs, table |-> tbl.table]

-----------------------------------------------------------------------------
(* Text extraction from an upload, lines 545-571.  An upload is a name and  *)
(* its bytes; the bytes are described by the format they are valid in and   *)
(* the text a reader of that format (or a UTF-8 decoder) gets out of them.  *)

EndsWith(text, suffix) ==
    /\ Len(text) >= Len(suffix)
    /\ \A j \in 1..Len(suffix) : text[Len(text) - Len(suffix) + j] = suffix[j]

NoText == [done |-> FALSE, raised |-> FALSE, text |-> << >>]
Returned(t) == [done |-> TRUE, raised |-> FALSE, text |-> t]
Raised == [done |-> TRUE, raised |-> TRUE, text |-> << >>]

\* lines 545-550: PdfReader raises on bytes that are not a PDF
extract_text_from_pdf(data) ==
    IF data.format = "pdf" THEN Returned(strip(data.text)) ELSE Raised

\* lines 553-555: Document raises on bytes that are not a Word package
extract_text_from_docx(data) ==
    IF data.format = "docx" THEN Returned(strip(data.text)) ELSE Raised

\* lines 558-571; decode(errors="ignore") keeps the decodable characters
extract_text_from_upload(uploaded_file) ==
    LET name == lower(uploaded_file.name)
        data == uploaded_file.data
    IN  IF EndsWith(name, <<".","p","d","f">>) THEN extract_text_from_pdf(data)
        ELSE IF EndsWith(name, <<".","d","o","c","x">>) THEN extract_text_from_docx(data)
        ELSE Returned(strip(data.text))

-----------------------------------------------------------------------------
(* The Streamlit script: ProposalInputs from the widget values *)

\* the widgets' default values, lines 721-905.  A widget that a run does not
\* render loses its value and shows its default when it is rendered again.
DefaultWidgets ==
    [pricing_mode |-> "Monthly Fixed",
     monthly_fixed_price |-> 0,
     rate_per_sqft |-> 0,
     rate_per_visit |-> 0,
     visits_per_week |-> 10,
     square_footage |-> 0,
     sales_tax_percent |-> 0,
     deep_clean_option |-> "None",
     deep_clean_price |-> 0,
     compensation_mode |-> "Auto (calculated)",
     compensation_override |-> 0,
     days_per_week |-> 5,
     floor_types |-> Text_none,
     num_break_rooms |-> 0,
     num_bathrooms |-> 0,
     num_kitchens |-> 0,
     num_locker_rooms |-> 0,
     day_porter_needed |-> "No"]

\* the mutant: visits_per_week is read from the widget in every pricing mode
PricingFields_StaleVisits(w) ==
    [monthly_fixed_price |-> IF w.pricing_mode = "Monthly Fixed" THEN w.monthly_fixed_price ELSE 0,
     rate_per_sqft |-> IF w.pricing_mode = "Per Sq Ft" THEN w.rate_per_sqft ELSE 0,
     rate_per_visit |-> IF w.pricing_mode \notin {"Monthly Fixed", "Per Sq Ft"} THEN w.rate_per_visit ELSE 0,
     visits_per_week |-> w.visits_per_week,
     visits_per_month |-> IF w.pricing_mode \notin {"Monthly Fixed", "Per Sq Ft"}
                          THEN compute_visits_per_month(w.visits_per_week) ELSE 0]

\* lines 761-782: the five pricing values start at 0 and the branch of the
\* selected mode overwrites its own
PricingFields(w) ==
    IF w.pricing_mode = "Monthly Fixed"
    THEN [monthly_fixed_price |-> w.monthly_fixed_price, rate_per_sqft |-> 0,
          rate_per_visit |-> 0, visits_per_week |-> 0, visits_per_month |-> 0]
    ELSE IF w.pricing_mode = "Per Sq Ft"
    THEN [monthly_fixed_price |-> 0, rate_per_sqft |-> w.rate_per_sqft,
          rate_per_visit |-> 0, visits_per_week |-> 0, visits_per_month |-> 0]
    ELSE [monthly_fixed_price |-> 0, rate_per_sqft |-> 0,
          rate_per_visit |-> w.rate_per_visit,
          visits_per_week |-> w.visits_per_week,
          visits_per_month |-> compute_visits_per_month(w.visits_per_week)]

\* p = ProposalInputs(...), lines 908-951, with the session's first add-on list
BuildInputs(w) ==
    LET pf == PricingFields(w)
    IN  [days_per_week |-> w.days_per_week,
         sales_tax_percent |-> w.sales_tax_percent,
         square_footage |-> w.square_footage,
         floor_types |-> strip(w.floor_types),
         num_break_rooms |-> w.num_break_rooms,
         num_bathrooms |-> w.num_bathrooms,
         num_kitchens |-> w.num_kitchens,
         num_locker_rooms |-> w.num_locker_rooms,
         day_porter_needed |-> w.day_porter_needed,
         pricing_mode |-> w.pricing_mode,
         monthly_fixed_price |-> pf.monthly_fixed_price,
         rate_per_sqft |-> pf.rate_per_sqft,
         rate_per_visit |-> pf.rate_per_visit,
         visits_per_week |-> pf.visits_per_week,
         visits_per_month |-> pf.visits_per_month,
         deep_clean_option |-> w.deep_clean_option,
         deep_clean_price |-> IF w.deep_clean_option # "None" THEN w.deep_clean_price ELSE 0,
         additional_services |-> InitialAddons,
         include_addons_in_total |-> "Yes",
         compensation_mode |-> w.compensation_mode,
         compensation_override |-> IF w.compensation_mode = "Override"
                                   THEN w.compensation_override ELSE 0]

\* ProposalInputs of the first script run
DefaultInputs == BuildInputs(DefaultWidgets)

\* st.session_state at the end of the first script run: lines 703-706, 840-841,
\* 865-866 and 967-971; a key that is absent is the empty sequence
InitialSession ==
    [service_addresses |-> << << >> >>,
     addons |-> InitialAddons,
     schedule_df |-> schedule_rows_to_df(compute_cleaning_schedule(DefaultInputs)),
     rfp_analysis |-> << >>,
     cleaning_plan_prefill |-> << >>,
     notes_prefill |-> << >>,
     cover_letter_body_prefill |-> << >>]

NoEvent == [click |-> "", index |-> 0, outcome |-> "", llm_calls |-> 0]

\* a working directory without template files
NoFiles == [exists |-> {}, template_styles |-> {}]

NoUpload == [name |-> << >>, data |-> [format |-> "text", text |-> << >>]]


-----------------------------------------------------------------------------
(* Specification SpecTotals: build_totals applied to each enumerated input *)

\* every combination of the pricing fields, with three add-on lists
PricingInputs ==
    { [DefaultInputs EXCEPT
          !.pricing_mode = m, !.monthly_fixed_price = f, !.rate_per_sqft = rs,
          !.square_footage = sf, !.rate_per_visit = rv, !.visits_per_week = 10,
          !.visits_per_month = vm, !.deep_clean_option = o, !.deep_clean_price = dp,
          !.sales_tax_percent = t, !.compensation_mode = cm,
          !.compensation_override = co, !.additional_services = a,
          !.include_addons_in_total = inc] :
        m \in PricingModes, f \in FixedPrices, rs \in SqftRates, sf \in SquareFootages,
        rv \in VisitRates, vm \in MonthlyVisits, o \in DeepCleanOptions,
        dp \in DeepCleanPrices, t \in TaxPercents, cm \in CompensationModes,
        co \in Overrides, a \in AddonSamples, inc \in YesNo }

\* every add-on list up to MaxAddons entries, with a few settings of the rest
AddonInputs ==
    { [DefaultInputs EXCEPT
          !.monthly_fixed_price = 500 * Dollar, !.deep_clean_option = o,
          !.deep_clean_price = 300 * Dollar, !.sales_tax_percent = t,
          !.additional_services = a, !.include_addons_in_total = inc] :
        o \in {"None", "Quarterly"}, t \in {0, 7},
        a \in SeqsUpTo(AddonPool, MaxAddons), inc \in YesNo }

TotalsInputs == PricingInputs \cup AddonInputs

InitTotals ==
    /\ pc = "input"
    /\ p \in TotalsInputs
    /\ totals = NoTotals
    /\ default_rows = << >>
    /\ widgets = DefaultWidgets
    /\ session = InitialSession /\ event = NoEvent
    /\ files = NoFiles /\ tuned_schedule_rows = << >> /\ docx = NoDocx
    /\ upload = NoUpload /\ extracted = NoText

\* totals = build_totals(p); p is only read
BuildTotals ==
    /\ pc = "input"
    /\ totals' = build_totals(p)
    /\ pc' = "totals"
    /\ UNCHANGED <<p, default_rows, widgets, session, event, files, tuned_schedule_rows, docx, upload, extracted>>

NextTotals == BuildTotals

SpecTotals == InitTotals /\ [][NextTotals]_vars

-----------------------------------------------------------------------------
(* Specification SpecSchedule: compute_cleaning_schedule on each facility *)

ScheduleInputs ==
    { [DefaultInputs EXCEPT
          !.days_per_week = d, !.floor_types = ft, !.num_bathrooms = nb,
          !.num_break_rooms = nbr, !.num_kitchens = nk, !.num_locker_rooms = nl,
          !.day_porter_needed = dpn, !.deep_clean_option = o] :
        d \in 0..MaxDays, ft \in FloorTexts, nb \in 0..MaxRooms, nbr \in 0..MaxRooms,
        nk \in 0..MaxRooms, nl \in 0..MaxRooms, dpn \in YesNo, o \in DeepCleanOptions }

InitSchedule ==
    /\ pc = "input"
    /\ p \in ScheduleInputs
    /\ totals = NoTotals
    /\ default_rows = << >>
    /\ widgets = DefaultWidgets
    /\ session = InitialSession /\ event = NoEvent
    /\ files = NoFiles /\ tuned_schedule_rows = << >> /\ docx = NoDocx
    /\ upload = NoUpload /\ extracted = NoText

\* default_rows = compute_cleaning_schedule(p), line 967
ComputeSchedule ==
    /\ pc = "input"
    /\ default_rows' = compute_cleaning_schedule(p)
    /\ pc' = "schedule"
    /\ UNCHANGED <<p, totals, widgets, session, event, files, tuned_schedule_rows, docx, upload, extracted>>

NextSchedule == ComputeSchedule

SpecSchedule == InitSchedule /\ [][NextSchedule]_vars

-----------------------------------------------------------------------------
(* Specification SpecDocx: the end of a script run, lines 989 and 1106-1112, *)
(* on each enumerated schedule table, address list and working directory    *)

MaxAddresses == 3       \* longest service-address list enumerated
MaxScheduleRows == 2    \* longest schedule table enumerated

\* texts typed into an address input
Addr == [empty |-> << >>, blank |-> << " " >>,
         A |-> <<"1"," ","A">>, padB |-> <<" ","2","B"," ">>]
AddressTexts == {Addr.empty, Addr.blank, Addr.A, Addr.padB}

\* the lists the address section can hold: at least the one entry of line 841
AddressLists == SeqsUpTo(AddressTexts, MaxAddresses) \ { << >> }

\* texts typed into a Task cell
Cell == [empty |-> << >>, blank |-> << " ", " " >>,
         Mop |-> <<"M","o","p">>, padWax |-> <<" ","W","a","x"," ">>]

DfRowPool ==
    { DfRow(t, f[1], f[2], f[3]) :
        t \in {Cell.empty, Cell.blank, None, Cell.Mop, Cell.padWax},
        f \in { <<TRUE, FALSE, FALSE>>, <<FALSE, TRUE, TRUE>>, <<FALSE, FALSE, FALSE>> } }

StyleNames == {"List Bullet", "Table Grid"}

\* the working directories: each of the two file names present or not, and
\* any subset of the two styles in Torus_Template.docx when it is present
WorkingDirs ==
    { [exists |-> e, template_styles |-> st] :
        e \in SUBSET {template_path, indicator_path}, st \in SUBSET StyleNames }
    \ { fs \in [exists : SUBSET {template_path, indicator_path},
                 template_styles : SUBSET StyleNames] :
            template_path \notin fs.exists /\ fs.template_styles # {} }

DocxInputs ==
    { <<fs, a, df>> : fs \in WorkingDirs, a \in AddressLists, df \in { InitialSession.schedule_df, << DfRow(Cell.Mop, TRUE, FALSE, FALSE) >>, << >> } }
    \cup { <<fs, a, df>> : fs \in {NoFiles}, a \in { << Addr.A >> }, df \in SeqsUpTo(DfRowPool, MaxScheduleRows) }

InitDocx ==
    /\ pc = "input"
    /\ p = DefaultInputs
    /\ totals = NoTotals
    /\ default_rows = << >>
    /\ widgets = DefaultWidgets
    /\ event = NoEvent
    /\ upload = NoUpload /\ extracted = NoText
    /\ \E in \in DocxInputs :
          /\ files = in[1]
          /\ session = [InitialSession EXCEPT !.service_addresses = in[2],
                                              !.schedule_df = in[3]]
    /\ tuned_schedule_rows = << >>
    /\ docx = NoDocx

\* tuned_schedule_rows = df_to_schedule_rows(edited_df), line 989, and
\* docx_data = docx_from_agreement(agreement_text, tuned_schedule_rows,
\* clean_list(st.session_state.service_addresses), p), lines 1107-1112
GenerateDocx ==
    /\ pc = "input"
    /\ tuned_schedule_rows' = df_to_schedule_rows(session.schedule_df)
    /\ docx' = docx_from_agreement(df_to_schedule_rows(session.schedule_df),
                                   clean_list(session.service_addresses), files)
    /\ pc' = "docx"
    /\ UNCHANGED <<p, totals, default_rows, widgets, session, event, files, upload, extracted>>

SpecDocx == InitDocx /\ [][GenerateDocx]_vars

-----------------------------------------------------------------------------
(* Specification SpecExtract: extract_text_from_upload on each upload *)

\* names of uploads
UploadName ==
    [r_pdf |-> <<"r",".","p","d","f">>, R_PDF |-> <<"R",".","P","D","F">>,
     r_docx |-> <<"r",".","d","o","c","x">>, R_Docx |-> <<"R",".","D","o","c","x">>,
     n_txt |-> <<"n",".","t","x","t">>]

\* the text in an upload's bytes: some, or some with white space around
ByteText == [R |-> << "R" >>, padR |-> << " ", "R", " " >>]

\* every name with bytes that are a PDF, a Word package, UTF-8 text or none
\* of these, holding no text (a scanned PDF, say) or some
Uploads ==
    { [name |-> n, data |-> [format |-> fmt, text |-> t]] :
        n \in {UploadName.r_pdf, UploadName.R_PDF, UploadName.r_docx, UploadName.R_Docx,
               UploadName.n_txt},
        fmt \in {"pdf", "docx", "text", "binary"},
        t \in { << >>, ByteText.R, ByteText.padR } }

InitExtract ==
    /\ pc = "input"
    /\ p = DefaultInputs
    /\ totals = NoTotals
    /\ default_rows = << >>
    /\ widgets = DefaultWidgets
    /\ session = InitialSession /\ event = NoEvent
    /\ files = NoFiles /\ tuned_schedule_rows = << >> /\ docx = NoDocx
    /\ upload \in Uploads
    /\ extracted = NoText

\* text = extract_text_from_upload(f), line 1026
ExtractText ==
    /\ pc = "input"
    /\ extracted' = extract_text_from_upload(upload)
    /\ pc' = "extract"
    /\ UNCHANGED <<p, totals, default_rows, widgets, session, event, files, tuned_schedule_rows, docx, upload>>

SpecExtract == InitExtract /\ [][ExtractText]_vars

-----------------------------------------------------------------------------
(* The script run of a session whose lists and schedule table have changed. *)
(* A button handler changes st.session_state and calls st.rerun(); the run  *)
(* that follows rebuilds p, the totals and the document from the new state. *)

\* lines 908-951 with the add-on list of the session, line 943
SessionInputs(w, s) == [BuildInputs(w) EXCEPT !.additional_services = s.addons]

\* the value of session.schedule_df while the key "schedule_df" is absent
NoTable == << DfRow(<< "<absent>" >>, FALSE, FALSE, FALSE) >>

\* the mutant: every run stores the recommended schedule
seed_schedule_Always(s, default_df) == [s EXCEPT !.schedule_df = default_df]

\* lines 967-968: if "schedule_df" not in st.session_state:
\*     st.session_state.schedule_df = default_df.copy()
seed_schedule(s, default_df) ==
    IF s.schedule_df = NoTable THEN [s EXCEPT !.schedule_df = default_df] ELSE s

\* a run from line 695 to the end on the widget values w and the session
\* state s, no button pressed, the table editor handing back the table it
\* was given (lines 973-989)
RunOn(w, s, ev) ==
    LET inputs == SessionInputs(w, s)
        s2 == seed_schedule(s, schedule_rows_to_df(compute_cleaning_schedule(inputs)))
    IN  /\ widgets' = w
        /\ session' = s2
        /\ event' = ev
        /\ p' = inputs
        /\ totals' = build_totals(inputs)
        /\ default_rows' = compute_cleaning_schedule(inputs)
        /\ tuned_schedule_rows' = df_to_schedule_rows(s2.schedule_df)
        /\ docx' = docx_from_agreement(df_to_schedule_rows(s2.schedule_df),
                                       clean_list(s2.service_addresses), files)
        /\ pc' = "app"
        /\ UNCHANGED <<files, upload, extracted>>

\* the run that follows a click: the widget values are the ones shown
ScriptRun(s, ev) == RunOn(widgets, s, ev)

Click(name, i, outcome) == [click |-> name, index |-> i, outcome |-> outcome, llm_calls |-> 0]

-----------------------------------------------------------------------------
(* Specification SpecLists: the service-address list (lines 838-857) and the *)
(* add-on list (lines 864-890).  Entry i of the model is entry i-1 of the    *)
(* Python list.                                                              *)

\* the mutant: the last entry is removed whatever the index
pop_Last(list, i) == SubSeq(list, 1, Len(list) - 1)

\* list.pop(i)
pop(list, i) == SubSeq(list, 1, i - 1) \o SubSeq(list, i + 1, Len(list))

InitLists ==
    /\ pc = "app"
    /\ widgets = DefaultWidgets
    /\ session = InitialSession
    /\ event = NoEvent
    /\ upload = NoUpload /\ extracted = NoText
    /\ files = NoFiles
    /\ p = SessionInputs(DefaultWidgets, InitialSession)
    /\ totals = build_totals(SessionInputs(DefaultWidgets, InitialSession))
    /\ default_rows = compute_cleaning_schedule(SessionInputs(DefaultWidgets, InitialSession))
    /\ tuned_schedule_rows = df_to_schedule_rows(InitialSession.schedule_df)
    /\ docx = docx_from_agreement(df_to_schedule_rows(InitialSession.schedule_df),
                                  clean_list(InitialSession.service_addresses), NoFiles)

\* lines 844-849: the text typed into input i is stored in entry i
EditAddress(i, t) ==
    /\ i \in 1..Len(session.service_addresses)
    /\ t # session.service_addresses[i]
    /\ ScriptRun([session EXCEPT !.service_addresses[i] = t], Click("edit_addr", i, "stored"))

\* lines 851-853: Remove of entry i; with a single entry the click does nothing
RemoveAddress(i) ==
    /\ i \in 1..Len(session.service_addresses)
    /\ IF Len(session.service_addresses) > 1
       THEN ScriptRun([session EXCEPT !.service_addresses = pop(@, i)],
                      Click("remove_addr", i, "removed"))
       ELSE ScriptRun(session, Click("remove_addr", i, "kept"))

\* lines 855-857
AddAddress ==
    /\ Len(session.service_addresses) < MaxAddresses
    /\ ScriptRun([session EXCEPT !.service_addresses = Append(@, Addr.empty)],
                 Click("add_addr", 0, "appended"))

\* lines 870-883: the name and the price typed into line i are stored in entry i
EditAddon(i, item) ==
    /\ i \in 1..Len(session.addons)
    /\ item # session.addons[i]
    /\ ScriptRun([session EXCEPT !.addons[i] = item], Click("edit_addon", i, "stored"))

\* lines 885-887
RemoveAddon(i) ==
    /\ i \in 1..Len(session.addons)
    /\ IF Len(session.addons) > 1
       THEN ScriptRun([session EXCEPT !.addons = pop(@, i)], Click("remove_addon", i, "removed"))
       ELSE ScriptRun(session, Click("remove_addon", i, "kept"))

\* lines 891-893
AddAddon ==
    /\ Len(session.addons) < MaxAddons
    /\ ScriptRun([session EXCEPT !.addons = Append(@, [name |-> Name_empty, price |-> 0])],
                 Click("add_addon", 0, "appended"))

NextLists ==
    \/ \E i \in 1..MaxAddresses, t \in {Addr.empty, Addr.A, Addr.padB} : EditAddress(i, t)
    \/ \E i \in 1..MaxAddresses : RemoveAddress(i)
    \/ AddAddress
    \/ \E i \in 1..MaxAddons,
          item \in { [name |-> Name_empty, price |-> 0],
                     [name |-> Name_A, price |-> 25 * Dollar],
                     [name |-> Name_padB, price |-> 50 * Dollar] } : EditAddon(i, item)
    \/ \E i \in 1..MaxAddons : RemoveAddon(i)
    \/ AddAddon

SpecLists == InitLists /\ [][NextLists]_vars

-----------------------------------------------------------------------------
(* Specification SpecSession: the schedule editor (lines 963-989) and the   *)
(* RFP analyzer (lines 1010-1086) in one session.  The language model is    *)
(* outside the program: a call either raises or returns an analysis object. *)

MaxUploads == 2         \* most files in one upload enumerated

AiRow(task, d, w, m) == [task |-> task, daily |-> d, weekly |-> w, monthly |-> m]

\* texts the model drafts
Draft == [P |-> << "P" >>, S |-> << "S" >>]

\* the analysis objects json.loads can return (line 689), the fields the
\* Apply handler reads
Analyses ==
    { [cleaning_plan_draft |-> c, scope_of_work_draft |-> Draft.S, schedule_rows |-> r] :
        c \in { << >>, Draft.P },
        r \in { << >>,
                << AiRow(Cell.Mop, TRUE, FALSE, FALSE) >>,
                << AiRow(Cell.blank, FALSE, TRUE, FALSE),
                   AiRow(Cell.padWax, FALSE, FALSE, TRUE) >> } }

\* what analyze_rfp_with_ai does (lines 586-689): get_openai_client raises
\* without a key (line 582), client.responses.create raises, json.loads
\* raises, or an analysis is returned
LlmOutcomes ==
    { [kind |-> k, analysis |-> << >>] : k \in {"no_key", "api_error", "bad_json"} }
    \cup { [kind |-> "ok", analysis |-> << a >>] : a \in Analyses }

\* the tables the editor hands back after the user's edits
SessionTables ==
    { << >>,
      << DfRow(None, FALSE, FALSE, FALSE) >>,
      << DfRow(Cell.blank, TRUE, FALSE, FALSE), DfRow(Cell.padWax, FALSE, TRUE, TRUE) >>,
      << DfRow(Cell.Mop, TRUE, FALSE, FALSE), DfRow(Cell.Mop, FALSE, FALSE, TRUE) >> }

Text_cover_default == << "Thank you for the opportunity to submit our proposal. ..." >>

\* the mutant: a failed call wipes the stored analysis
run_analysis_ForgetOnFailure(s, rfp_files, llm) ==
    IF rfp_files = << >>
    THEN [session |-> s, outcome |-> "no_files", llm_calls |-> 0]
    ELSE IF \E i \in 1..Len(rfp_files) : extract_text_from_upload(rfp_files[i]).raised
    THEN [session |-> s, outcome |-> "extract_raised", llm_calls |-> 0]
    ELSE IF \A i \in 1..Len(rfp_files) : extract_text_from_upload(rfp_files[i]).text = << >>
    THEN [session |-> s, outcome |-> "no_text", llm_calls |-> 0]
    ELSE IF llm.kind = "ok"
    THEN [session |-> [s EXCEPT !.rfp_analysis = llm.analysis], outcome |-> "ok", llm_calls |-> 1]
    ELSE [session |-> [s EXCEPT !.rfp_analysis = << >>], outcome |-> llm.kind,
          llm_calls |-> IF llm.kind = "no_key" THEN 0 ELSE 1]

\* lines 1021-1041, the handler of "Analyze RFP/PWS with AI": the session
\* state it leaves, what it reported, and how often it called the model
run_analysis(s, rfp_files, llm) ==
    IF rfp_files = << >>
    THEN [session |-> s, outcome |-> "no_files", llm_calls |-> 0]
    ELSE IF \E i \in 1..Len(rfp_files) : extract_text_from_upload(rfp_files[i]).raised
    THEN [session |-> s, outcome |-> "extract_raised", llm_calls |-> 0]
    ELSE IF \A i \in 1..Len(rfp_files) : extract_text_from_upload(rfp_files[i]).text = << >>
    THEN [session |-> s, outcome |-> "no_text", llm_calls |-> 0]
    ELSE IF llm.kind = "ok"
    THEN [session |-> [s EXCEPT !.rfp_analysis = llm.analysis], outcome |-> "ok", llm_calls |-> 1]
    ELSE [session |-> s, outcome |-> llm.kind,
          llm_calls |-> IF llm.kind = "no_key" THEN 0 ELSE 1]

\* lines 1076-1080: the rows of the analysis as editor rows
ai_rows(a) ==
    [i \in 1..Len(a.schedule_rows) |->
        DfRow(a.schedule_rows[i].task, a.schedule_rows[i].daily,
              a.schedule_rows[i].weekly, a.schedule_rows[i].monthly)]

\* the mutant: the rows of the analysis are appended to the table
apply_analysis_Merge(s, a) ==
    [s EXCEPT !.cleaning_plan_prefill = a.cleaning_plan_draft,
              !.notes_prefill = a.scope_of_work_draft,
              !.cover_letter_body_prefill = IF @ = << >> THEN Text_cover_default ELSE @,
              !.schedule_df = @ \o ai_rows(a)]

\* lines 1065-1083, the handler of "Apply AI drafts to proposal fields + schedule"
apply_analysis(s, a) ==
    [s EXCEPT !.cleaning_plan_prefill = a.cleaning_plan_draft,
              !.notes_prefill = a.scope_of_work_draft,
              !.cover_letter_body_prefill = IF @ = << >> THEN Text_cover_default ELSE @,
              !.schedule_df = IF ai_rows(a) # << >> THEN ai_rows(a) ELSE @]

InitSession ==
    /\ pc = "app"
    /\ widgets = DefaultWidgets
    /\ session = InitialSession
    /\ event = NoEvent
    /\ upload = NoUpload /\ extracted = NoText
    \* no template; a template with both styles; a template without styles
    /\ files \in { NoFiles,
                   [exists |-> {template_path}, template_styles |-> StyleNames],
                   [exists |-> {template_path, indicator_path}, template_styles |-> {}] }
    /\ p = SessionInputs(DefaultWidgets, InitialSession)
    /\ totals = build_totals(SessionInputs(DefaultWidgets, InitialSession))
    /\ default_rows = compute_cleaning_schedule(SessionInputs(DefaultWidgets, InitialSession))
    /\ tuned_schedule_rows = df_to_schedule_rows(InitialSession.schedule_df)
    /\ docx = docx_from_agreement(df_to_schedule_rows(InitialSession.schedule_df),
                                  clean_list(InitialSession.service_addresses), files)

\* lines 973-989: the editor hands back the edited table, which is stored
EditSchedule(df) ==
    /\ df # session.schedule_df
    /\ ScriptRun([session EXCEPT !.schedule_df = df], Click("edit_schedule", 0, "stored"))

\* lines 969-971
ResetSchedule ==
    ScriptRun([session EXCEPT !.schedule_df = schedule_rows_to_df(default_rows)],
              Click("reset_schedule", 0, "reset"))

\* lines 1021-1041.  An exception of extract_text_from_upload (line 1026)
\* ends the run there; otherwise the run goes on to its end.  When the
\* handler does not reach analyze_rfp_with_ai, llm is not consulted and one
\* value stands for all.
Analyze(rfp_files, llm) ==
    LET r == run_analysis(session, rfp_files, llm)
        ev == [click |-> "analyze", index |-> 0, outcome |-> r.outcome,
               llm_calls |-> r.llm_calls]
    IN  /\ r.outcome \in {"no_files", "extract_raised", "no_text"} => llm.kind = "api_error"
        /\ IF r.outcome = "extract_raised"
           THEN /\ event' = ev
                /\ UNCHANGED <<pc, p, totals, default_rows, widgets, session, files,
                               tuned_schedule_rows, docx, upload, extracted>>
           ELSE ScriptRun(r.session, ev)

\* lines 1065-1086; the button exists only while an analysis is stored (line 1043)
Apply ==
    /\ session.rfp_analysis # << >>
    /\ ScriptRun(apply_analysis(session, session.rfp_analysis[1]), Click("apply", 0, "applied"))

\* the mutant: clearing also puts the schedule back to the first one
clear_analysis_ResetSchedule(s) ==
    [s EXCEPT !.rfp_analysis = << >>,
              !.cleaning_plan_prefill = << >>,
              !.notes_prefill = << >>,
              !.cover_letter_body_prefill = << >>,
              !.schedule_df = InitialSession.schedule_df]

\* lines 1013-1019, the handler of "Clear analysis / prefills": the four keys
\* are deleted; lines 703-706 of the run that follows set the three prefills
\* to "" again, and rfp_analysis stays absent
clear_analysis(s) ==
    [s EXCEPT !.rfp_analysis = << >>,
              !.cleaning_plan_prefill = << >>,
              !.notes_prefill = << >>,
              !.cover_letter_body_prefill = << >>]

\* lines 1013-1019 and st.rerun()
ClearAnalysis == ScriptRun(clear_analysis(session), Click("clear", 0, "cleared"))

NextSession ==
    \/ \E df \in SessionTables : EditSchedule(df)
    \/ ResetSchedule
    \* the uploads: a text file, a scanned PDF, a file named .pdf that is no PDF
    \/ \E fs \in SeqsUpTo(
                { [name |-> UploadName.n_txt, data |-> [format |-> "text", text |-> ByteText.padR]],
                  [name |-> UploadName.R_PDF, data |-> [format |-> "pdf", text |-> << >>]],
                  [name |-> UploadName.r_pdf, data |-> [format |-> "text", text |-> ByteText.R]] },
                MaxUploads),
          llm \in LlmOutcomes : Analyze(fs, llm)
    \/ Apply
    \/ ClearAnalysis

SpecSession == InitSession /\ [][NextSession]_vars

-----------------------------------------------------------------------------
(* Specification SpecFacility: a session from its first run, with the       *)
(* facility inputs (lines 717-785) changing under the schedule editor       *)

\* the state before the first run: the key "schedule_df" is absent; the two
\* lists and the prefills are shown with the values the first run gives them
InitFacility ==
    /\ pc = "start"
    /\ widgets = DefaultWidgets
    /\ session = [InitialSession EXCEPT !.schedule_df = NoTable]
    /\ event = NoEvent
    /\ files = NoFiles /\ tuned_schedule_rows = << >> /\ docx = NoDocx
    /\ upload = NoUpload /\ extracted = NoText
    /\ p = DefaultInputs
    /\ totals = NoTotals
    /\ default_rows = << >>

\* the first run of the script, every widget at its default
FirstRun ==
    /\ pc = "start"
    /\ RunOn(DefaultWidgets, session, NoEvent)

\* a facility widget is set to v: days per week (line 717), day porter (726),
\* floor types (743), a room count (750-755) or the deep-clean option (785),
\* whose price input (line 790) is rendered only for an option other than None
SetFacility(field, v) ==
    /\ widgets[field] # v
    /\ LET w2 == [widgets EXCEPT ![field] = v]
           w3 == [w2 EXCEPT !.deep_clean_price = IF w2.deep_clean_option = "None"
                                                 THEN DefaultWidgets.deep_clean_price
                                                 ELSE @]
       IN  RunOn(w3, session, Click("facility", 0, field))

NextFacility ==
    \/ FirstRun
    \/ /\ pc = "app"
       /\ \/ \E d \in {5, 7} : SetFacility("days_per_week", d)
          \/ \E t \in {Text_none, Text_Carpet} : SetFacility("floor_types", t)
          \/ \E n \in 0..1 : SetFacility("num_bathrooms", n)
          \/ \E yn \in YesNo : SetFacility("day_porter_needed", yn)
          \/ \E o \in {"None", "Quarterly"} : SetFacility("deep_clean_option", o)
          \/ \E df \in { << >>, << DfRow(Cell.padWax, FALSE, TRUE, TRUE) >> } : EditSchedule(df)
          \/ ResetSchedule
          \/ Analyze(<< [name |-> UploadName.n_txt,
                          data |-> [format |-> "text", text |-> ByteText.R]] >>,
                     [kind |-> "ok",
                      analysis |-> << [cleaning_plan_draft |-> Draft.P,
                                       scope_of_work_draft |-> Draft.S,
                                       schedule_rows |-> << AiRow(Cell.Mop, TRUE, FALSE, FALSE) >>] >>])
          \/ Apply

SpecFacility == InitFacility /\ [][NextFacility]_vars

-----------------------------------------------------------------------------
(* Specification Spec: the Streamlit session.  Every change of a widget      *)
(* reruns the script from the top: Rerun is the run on the new widget values *)

Rerun(w) ==
    /\ widgets' = w
    /\ p' = BuildInputs(w)
    /\ totals' = build_totals(BuildInputs(w))
    /\ default_rows' = compute_cleaning_schedule(BuildInputs(w))
    /\ pc' = "app"
    /\ tuned_schedule_rows' = df_to_schedule_rows(session.schedule_df)
    /\ docx' = docx_from_agreement(df_to_schedule_rows(session.schedule_df),
                                   clean_list(session.service_addresses), files)
    /\ UNCHANGED <<session, event, files, upload, extracted>>

Init ==
    /\ pc = "app"
    /\ widgets = DefaultWidgets
    /\ p = BuildInputs(DefaultWidgets)
    /\ totals = build_totals(BuildInputs(DefaultWidgets))
    /\ default_rows = compute_cleaning_schedule(BuildInputs(DefaultWidgets))
    /\ session = InitialSession /\ event = NoEvent
    /\ upload = NoUpload /\ extracted = NoText
    /\ files = NoFiles
    /\ tuned_schedule_rows = df_to_schedule_rows(session.schedule_df)
    /\ docx = docx_from_agreement(df_to_schedule_rows(session.schedule_df),
                                  clean_list(session.service_addresses), files)

\* line 759; the number inputs of the branches no longer rendered (lines 767-782)
\* come back at their defaults
SelectPricingMode(m) ==
    /\ m # widgets.pricing_mode
    /\ Rerun([widgets EXCEPT !.pricing_mode = m,
                             !.monthly_fixed_price = DefaultWidgets.monthly_fixed_price,
                             !.rate_per_sqft = DefaultWidgets.rate_per_sqft,
                             !.rate_per_visit = DefaultWidgets.rate_per_visit,
                             !.visits_per_week = DefaultWidgets.visits_per_week])

\* line 768
SetMonthlyFixedPrice(v) ==
    /\ widgets.pricing_mode = "Monthly Fixed"
    /\ Rerun([widgets EXCEPT !.monthly_fixed_price = v])

\* lines 770-776
SetRatePerSqft(v) ==
    /\ widgets.pricing_mode = "Per Sq Ft"
    /\ Rerun([widgets EXCEPT !.rate_per_sqft = v])

\* line 779
SetRatePerVisit(v) ==
    /\ widgets.pricing_mode = "Per Visit"
    /\ Rerun([widgets EXCEPT !.rate_per_visit = v])

\* line 780
SetVisitsPerWeek(h) ==
    /\ widgets.pricing_mode = "Per Visit"
    /\ Rerun([widgets EXCEPT !.visits_per_week = h])

\* line 742
SetSquareFootage(v) ==
    /\ v # widgets.square_footage
    /\ Rerun([widgets EXCEPT !.square_footage = v])

\* line 721
SetSalesTax(t) ==
    /\ t # widgets.sales_tax_percent
    /\ Rerun([widgets EXCEPT !.sales_tax_percent = t])

\* line 785; the price input (line 790) is rendered only for an option other than None
SelectDeepCleanOption(o) ==
    /\ o # widgets.deep_clean_option
    /\ Rerun([widgets EXCEPT !.deep_clean_option = o,
                             !.deep_clean_price = IF o = "None"
                                                  THEN DefaultWidgets.deep_clean_price
                                                  ELSE @])

\* line 790
SetDeepCleanPrice(v) ==
    /\ widgets.deep_clean_option # "None"
    /\ Rerun([widgets EXCEPT !.deep_clean_price = v])

\* line 902; the override input (line 905) is rendered only in Override mode
SelectCompensationMode(cm) ==
    /\ cm # widgets.compensation_mode
    /\ Rerun([widgets EXCEPT !.compensation_mode = cm,
                             !.compensation_override = DefaultWidgets.compensation_override])

\* line 905
SetCompensationOverride(v) ==
    /\ widgets.compensation_mode = "Override"
    /\ Rerun([widgets EXCEPT !.compensation_override = v])

Next ==
    \/ \E m \in PricingModes : SelectPricingMode(m)
    \/ \E v \in FixedPrices : SetMonthlyFixedPrice(v)
    \/ \E v \in SqftRates : SetRatePerSqft(v)
    \/ \E v \in VisitRates : SetRatePerVisit(v)
    \/ \E h \in 0..MaxVisitHalves : SetVisitsPerWeek(h)
    \/ \E v \in SquareFootages : SetSquareFootage(v)
    \/ \E t \in WidgetTaxPercents : SetSalesTax(t)
    \/ \E o \in DeepCleanOptions : SelectDeepCleanOption(o)
    \/ \E v \in DeepCleanPrices : SetDeepCleanPrice(v)
    \/ \E cm \in CompensationModes : SelectCompensationMode(cm)
    \/ \E v \in Overrides : SetCompensationOverride(v)

Spec == Init /\ [][Next]_vars

-----------------------------------------------------------------------------
(* Properties *)

TotalsBuilt == pc \in {"totals", "app"}
ScheduleComputed == pc \in {"schedule", "app"}

\* the model's arithmetic is exact on the enumerated inputs
ExactInputs ==
    TotalsBuilt =>
        /\ p.deep_clean_price % 3 = 0
        /\ (totals.monthly_subtotal * Max(0, p.sales_tax_percent)) % 100 = 0

\* C1: base_monthly is decided by the pricing mode alone: Monthly Fixed gives
\* monthly_fixed_price, Per Sq Ft gives rate_per_sqft * square_footage, Per Visit
\* gives rate_per_visit * visits_per_month (0 when visits_per_month is 0), and
\* changing the fields of the other two modes leaves base_monthly as it is.
C1_BaseMonthlyByMode ==
    TotalsBuilt =>
        /\ p.pricing_mode = "Monthly Fixed" =>
              /\ totals.base_monthly = p.monthly_fixed_price
              /\ \A rs \in SqftRates, sf \in SquareFootages, rv \in VisitRates, vm \in MonthlyVisits :
                    build_totals([p EXCEPT !.rate_per_sqft = rs, !.square_footage = sf,
                                           !.rate_per_visit = rv, !.visits_per_month = vm]).base_monthly
                        = totals.base_monthly
        /\ p.pricing_mode = "Per Sq Ft" =>
              /\ totals.base_monthly = p.rate_per_sqft * p.square_footage
              /\ \A f \in FixedPrices, rv \in VisitRates, vm \in MonthlyVisits :
                    build_totals([p EXCEPT !.monthly_fixed_price = f,
                                           !.rate_per_visit = rv, !.visits_per_month = vm]).base_monthly
                        = totals.base_monthly
        /\ p.pricing_mode = "Per Visit" =>
              /\ totals.base_monthly = p.rate_per_visit * p.visits_per_month
              /\ p.visits_per_month = 0 => totals.base_monthly = 0
              /\ \A f \in FixedPrices, rs \in SqftRates, sf \in SquareFootages :
                    build_totals([p EXCEPT !.monthly_fixed_price = f, !.rate_per_sqft = rs,
                                           !.square_footage = sf]).base_monthly
                        = totals.base_monthly

C1_Witness ==
    /\ pc = "totals"
    /\ p.pricing_mode = "Per Visit"
    /\ p.rate_per_visit = 150 * Dollar
    /\ p.visits_per_month = 22
    /\ p.monthly_fixed_price = 500 * Dollar
    /\ p.rate_per_sqft * p.square_footage > 0
    /\ totals.base_monthly = 3300 * Dollar

\* the end-to-end scenario of the spec: Per Visit, 150 per visit, 5 visits per
\* week, 7% tax, no add-on counted, no deep clean, automatic compensation
Scenario ==
    /\ p.pricing_mode = "Per Visit"
    /\ p.rate_per_visit = 150 * Dollar
    /\ p.visits_per_week = 10
    /\ p.visits_per_month = compute_visits_per_month(10)
    /\ p.sales_tax_percent = 7
    /\ p.additional_services = InitialAddons
    /\ p.deep_clean_option = "None"
    /\ p.compensation_mode = "Auto (calculated)"

ScenarioTotals ==
    /\ p.visits_per_month = 22
    /\ totals.monthly_subtotal = 3300 * Dollar
    /\ totals.monthly_tax = 231 * Dollar
    /\ totals.monthly_total_with_tax = 3531 * Dollar
    /\ totals.compensation_monthly = 3531 * Dollar

\* C2 as stated: monthly_subtotal = base_monthly + addons_included_monthly +
\* deep_clean_monthly_equiv, monthly_tax = monthly_subtotal * sales_tax_percent / 100,
\* monthly_total_with_tax = monthly_subtotal + monthly_tax, for every configuration.
C2_Original ==
    TotalsBuilt =>
        /\ totals.monthly_subtotal =
              totals.base_monthly + totals.addons_included_monthly + totals.deep_clean_monthly_equiv
        /\ 100 * totals.monthly_tax = totals.monthly_subtotal * p.sales_tax_percent
        /\ totals.monthly_total_with_tax = totals.monthly_subtotal + totals.monthly_tax
        /\ Scenario => ScenarioTotals

\* C2 (amended): as C2, with the tax taken on max(0, sales_tax_percent):
\* monthly_tax = monthly_subtotal * max(0, sales_tax_percent) / 100; the scenario
\* gives subtotal 3300.00, tax 231.00, total 3531.00, compensation 3531.00.
C2_TotalsIdentities ==
    TotalsBuilt =>
        /\ totals.monthly_subtotal =
              totals.base_monthly + totals.addons_included_monthly + totals.deep_clean_monthly_equiv
        /\ 100 * totals.monthly_tax =
              totals.monthly_subtotal * (IF p.sales_tax_percent > 0 THEN p.sales_tax_percent ELSE 0)
        /\ totals.monthly_total_with_tax = totals.monthly_subtotal + totals.monthly_tax
        /\ Scenario => ScenarioTotals

C2_Witness ==
    /\ pc = "totals"
    /\ Scenario
    /\ totals.monthly_tax = 231 * Dollar
    /\ totals.monthly_total_with_tax = 3531 * Dollar

\* C3: build_totals on a configuration with a negative sales_tax_percent returns
\* the monthly_tax and monthly_total_with_tax of the same configuration with
\* sales_tax_percent = 0, and leaves the configuration's sales_tax_percent (and
\* the rest of it) as given.
C3_TaxClampAtUse ==
    [][ (pc = "input" /\ pc' = "totals" /\ p.sales_tax_percent < 0) =>
           /\ p' = p
           /\ p'.sales_tax_percent < 0
           /\ totals'.monthly_tax =
                 build_totals([p EXCEPT !.sales_tax_percent = 0]).monthly_tax
           /\ totals'.monthly_total_with_tax =
                 build_totals([p EXCEPT !.sales_tax_percent = 0]).monthly_total_with_tax
           /\ totals'.monthly_total_with_tax = totals'.monthly_subtotal ]_vars

C3_Witness ==
    /\ pc = "totals"
    /\ p.sales_tax_percent = -5
    /\ totals.monthly_subtotal > 0
    /\ totals.monthly_tax = 0
    /\ totals.monthly_total_with_tax = totals.monthly_subtotal

\* C4: One-time: deep_clean_one_time = deep_clean_price and the deep clean adds 0
\* to monthly_subtotal; Quarterly: deep_clean_quarterly = deep_clean_price,
\* deep_clean_monthly_equiv = deep_clean_price / 3 (300 gives 100) and
\* deep_clean_one_time = 0; None: the three fields are 0 whatever the price.
C4_DeepClean ==
    TotalsBuilt =>
        /\ p.deep_clean_option = "One-time" =>
              /\ totals.deep_clean_one_time = p.deep_clean_price
              /\ totals.deep_clean_monthly_equiv = 0
              /\ totals.monthly_subtotal = totals.base_monthly + totals.addons_included_monthly
        /\ p.deep_clean_option = "Quarterly" =>
              /\ totals.deep_clean_quarterly = p.deep_clean_price
              /\ 3 * totals.deep_clean_monthly_equiv = p.deep_clean_price
              /\ p.deep_clean_price = 300 * Dollar => totals.deep_clean_monthly_equiv = 100 * Dollar
              /\ totals.deep_clean_one_time = 0
        /\ p.deep_clean_option = "None" =>
              /\ totals.deep_clean_one_time = 0
              /\ totals.deep_clean_quarterly = 0
              /\ totals.deep_clean_monthly_equiv = 0

C4_Witness ==
    /\ pc = "totals"
    /\ p.deep_clean_option = "One-time"
    /\ p.deep_clean_price = 300 * Dollar
    /\ totals.deep_clean_one_time = 300 * Dollar
    /\ totals.base_monthly > 0
    /\ totals.monthly_subtotal = totals.base_monthly + totals.addons_included_monthly

\* an entry counts: its name has a character that is not white space, and its price is above 0
Counts(item) ==
    /\ \E i \in 1..Len(item.name) : item.name[i] \notin Whitespace
    /\ item.price > 0

CountingIndices(items) == { i \in 1..Len(items) : Counts(items[i]) }

RECURSIVE SumPrices(_, _)
SumPrices(items, S) ==
    IF S = {} THEN 0
    ELSE LET i == CHOOSE x \in S : TRUE
         IN  items[i].price + SumPrices(items, S \ {i})

\* C5: addons_total is the sum of the prices of exactly the entries whose name is
\* not blank after trimming and whose price is above 0; only those entries get a
\* line item; addons_included_monthly is addons_total when
\* include_addons_in_total is Yes and 0 otherwise.
C5_Addons ==
    TotalsBuilt =>
        LET items == p.additional_services
            S == CountingIndices(items)
        IN  /\ totals.addons_total = SumPrices(items, S)
            /\ Len(totals.addons_lines) = Cardinality(S)
            /\ \A k \in 1..Len(totals.addons_lines) :
                  LET line == totals.addons_lines[k]
                  IN  /\ line.price > 0
                      /\ line.name # << >>
                      /\ line.name[1] \notin Whitespace
                      /\ line.name[Len(line.name)] \notin Whitespace
                      /\ \E i \in S : items[i].price = line.price
                                        /\ Contains(items[i].name, line.name)
            /\ totals.addons_included_monthly =
                  (IF p.include_addons_in_total = "Yes" THEN totals.addons_total ELSE 0)

C5_Witness ==
    /\ pc = "totals"
    /\ Len(p.additional_services) = 2
    /\ p.additional_services[1] = [name |-> Name_blank, price |-> 25 * Dollar]
    /\ p.additional_services[2] = [name |-> Name_padB, price |-> 50 * Dollar]
    /\ p.include_addons_in_total = "No"
    /\ totals.addons_total = 50 * Dollar
    /\ Len(totals.addons_lines) = 1
    /\ totals.addons_included_monthly = 0

\* C6: compensation_monthly is compensation_override when compensation_mode is
\* Override, whatever the other totals, and monthly_total_with_tax otherwise.
C6_Compensation ==
    TotalsBuilt =>
        /\ p.compensation_mode = "Override" =>
              totals.compensation_monthly = p.compensation_override
        /\ p.compensation_mode # "Override" =>
              totals.compensation_monthly = totals.monthly_total_with_tax

C6_Witness ==
    /\ pc = "totals"
    /\ p.compensation_mode = "Override"
    /\ p.compensation_override = 500 * Dollar
    /\ totals.monthly_total_with_tax > 500 * Dollar
    /\ totals.compensation_monthly = 500 * Dollar

\* n is an integer nearest to visits_per_week * 52 / 12 (visits_per_week in half
\* visits): |n - h * 13 / 6| <= 1/2
Nearest(n, h) == 6 * n - 13 * h \in -3..3

\* C7: compute_visits_per_month returns visits_per_week * 52 / 12 rounded to the
\* nearest integer (0 gives 0, 5 gives 22), and in every ProposalInputs the
\* script builds, in every pricing mode and after any changes of the pricing
\* mode, visits_per_month = compute_visits_per_month(visits_per_week).
C7_VisitsPerMonth ==
    pc = "app" =>
        /\ p.visits_per_month = compute_visits_per_month(p.visits_per_week)
        /\ Nearest(p.visits_per_month, p.visits_per_week)
        /\ p.visits_per_week = 0 => p.visits_per_month = 0
        /\ p.visits_per_week = 10 => p.visits_per_month = 22
        /\ \A h \in 0..MaxVisitHalves : Nearest(compute_visits_per_month(h), h)

C7_Witness ==
    /\ pc = "app"
    /\ p.pricing_mode = "Per Visit"
    /\ p.visits_per_week = 3
    /\ p.visits_per_month = 6
    /\ p.rate_per_visit = 150 * Dollar

Task_trash == "Empty trash & replace liners"
Task_touch == "Clean/disinfect high-touch points (handles, switches, rails)"
Task_highdust == "High dusting (vents, ledges, corners)"
Task_baseboards == "Baseboards / detail edges (as applicable)"
Task_restroom == "Clean & disinfect restrooms; restock as applicable"
Task_breakroom == "Break rooms/kitchens: counters, sinks, exterior appliances"
Task_locker == "Locker rooms: clean/disinfect & mop"
Task_porter == "Day porter tasks (restroom checks, spills, touch-ups)"
Task_deepclean == "Deep clean tasks (per agreement)"

\* the positions of the rows of the schedule that carry the task
RowsOf(task) == { i \in 1..Len(default_rows) : default_rows[i][1] = task }

Daily(i) == default_rows[i][2] = CHECK
Weekly(i) == default_rows[i][3] = CHECK
Monthly(i) == default_rows[i][4] = CHECK

\* C8: the schedule has exactly one "Empty trash & replace liners" row and one
\* "Clean/disinfect high-touch points" row, each daily exactly when
\* days_per_week >= 3 and weekly exactly when days_per_week is 1 or 2, and
\* exactly one "High dusting" row and one "Baseboards / detail edges" row, each
\* marked monthly only.
C8_AlwaysRows ==
    ScheduleComputed =>
        /\ \A t \in {Task_trash, Task_touch} :
              /\ Cardinality(RowsOf(t)) = 1
              /\ \A i \in RowsOf(t) :
                    /\ Daily(i) <=> p.days_per_week >= 3
                    /\ Weekly(i) <=> p.days_per_week \in {1, 2}
        /\ \A t \in {Task_highdust, Task_baseboards} :
              /\ Cardinality(RowsOf(t)) = 1
              /\ \A i \in RowsOf(t) : Monthly(i) /\ ~Daily(i) /\ ~Weekly(i)

C8_Witness ==
    /\ pc = "schedule"
    /\ p.days_per_week = 4
    /\ p.num_bathrooms = 0
    /\ p.floor_types = Text_none
    /\ \E i \in RowsOf(Task_trash) : Daily(i) /\ ~Weekly(i)
    /\ \E i \in RowsOf(Task_highdust) : Monthly(i)

\* C9: each conditional row appears exactly once when its trigger holds and not
\* at all otherwise: restroom iff num_bathrooms > 0, break room/kitchen iff
\* num_break_rooms > 0 or num_kitchens > 0, locker room iff num_locker_rooms > 0,
\* day porter (daily only) iff day_porter_needed is Yes, deep-clean placeholder
\* (monthly only) iff deep_clean_option is not None.
C9_ConditionalRows ==
    ScheduleComputed =>
        LET n(t) == Cardinality(RowsOf(t))
            once(b) == IF b THEN 1 ELSE 0
        IN  /\ n(Task_restroom) = once(p.num_bathrooms > 0)
            /\ n(Task_breakroom) = once(p.num_break_rooms > 0 \/ p.num_kitchens > 0)
            /\ n(Task_locker) = once(p.num_locker_rooms > 0)
            /\ n(Task_porter) = once(p.day_porter_needed = "Yes")
            /\ n(Task_deepclean) = once(p.deep_clean_option # "None")
            /\ \A i \in RowsOf(Task_porter) : Daily(i) /\ ~Weekly(i) /\ ~Monthly(i)
            /\ \A i \in RowsOf(Task_deepclean) : Monthly(i) /\ ~Daily(i) /\ ~Weekly(i)

C9_Witness ==
    /\ pc = "schedule"
    /\ p.num_bathrooms = 0
    /\ p.num_break_rooms = 0
    /\ p.num_kitchens > 0
    /\ p.num_locker_rooms > 0
    /\ p.day_porter_needed = "Yes"
    /\ p.deep_clean_option = "One-time"
    /\ RowsOf(Task_restroom) = {}
    /\ Cardinality(RowsOf(Task_breakroom)) = 1
    /\ Cardinality(RowsOf(Task_porter)) = 1

\* C10 as stated: with days_per_week = 0 no row of the schedule is marked daily
\* or weekly, for every facility profile.
C10_Original ==
    (ScheduleComputed /\ p.days_per_week = 0) =>
        \A i \in 1..Len(default_rows) : ~Daily(i) /\ ~Weekly(i)

\* C10 (amended): with days_per_week = 0 no row is marked weekly, and the only
\* row marked daily is the day-porter row, which is there exactly when
\* day_porter_needed is Yes; so with day_porter_needed = No nothing is marked in
\* the daily or the weekly column.
C10_ZeroDays ==
    (ScheduleComputed /\ p.days_per_week = 0) =>
        /\ \A i \in 1..Len(default_rows) :
              /\ ~Weekly(i)
              /\ Daily(i) => default_rows[i][1] = Task_porter
        /\ (\E i \in 1..Len(default_rows) : Daily(i)) <=> p.day_porter_needed = "Yes"

C10_Witness ==
    /\ pc = "schedule"
    /\ p.days_per_week = 0
    /\ p.day_porter_needed = "Yes"
    /\ p.num_bathrooms > 0
    /\ p.floor_types = Text_CarpetTile
    /\ \E i \in RowsOf(Task_porter) : Daily(i)
    /\ \A i \in 1..Len(default_rows) : ~Weekly(i)

Task_vacuum == "Vacuum carpeted areas (as applicable)"
Task_spot == "Spot treat carpet stains (as needed)"
Task_extraction == "Carpet extraction / shampoo (as scheduled)"
Task_mop == "Damp mop hard floors (as applicable)"
Task_scrub == "Detail floor scrubbing / machine scrub"
Task_vct == "VCT maintenance (buff/burnish if applicable)"
Task_wax == "Strip & wax (as quoted/needed)"
Task_dust == "Dust horizontal surfaces (accessible)"
Task_glass == "Spot clean glass & mirrors (interior)"

\* the lower-case word occurs in the text at some offset, letter case apart
Mentions(text, word) ==
    \E off \in 0..(Len(text) - Len(word)) :
        \A j \in 1..Len(word) : LowerChar(text[off + j]) = word[j]

Once(b) == IF b THEN 1 ELSE 0

\* C11: the three carpet rows are emitted iff floor_types contains "carpet"; the
\* two hard-floor rows iff it contains one of "vct", "vinyl", "epoxy", "tile",
\* "hard", "concrete"; the "VCT maintenance" and "Strip & wax" rows, monthly
\* only, iff it contains "vct" or "vinyl"; all matches are case-insensitive
\* substring matches, and an empty floor_types emits none of these rows.
C11_FloorRows ==
    ScheduleComputed =>
        LET ft == p.floor_types
            carpet == Mentions(ft, Txt_carpet)
            vct == Mentions(ft, Txt_vct) \/ Mentions(ft, Txt_vinyl)
            hard == \E w \in {Txt_vct, Txt_vinyl, Txt_epoxy, Txt_tile, Txt_hard, Txt_concrete} :
                        Mentions(ft, w)
        IN  /\ \A t \in {Task_vacuum, Task_spot, Task_extraction} :
                  Cardinality(RowsOf(t)) = Once(carpet)
            /\ \A t \in {Task_mop, Task_scrub} : Cardinality(RowsOf(t)) = Once(hard)
            /\ \A t \in {Task_vct, Task_wax} :
                  /\ Cardinality(RowsOf(t)) = Once(vct)
                  /\ \A i \in RowsOf(t) : Monthly(i) /\ ~Daily(i) /\ ~Weekly(i)
            /\ ft = << >> =>
                  \A t \in {Task_vacuum, Task_spot, Task_extraction, Task_mop,
                            Task_scrub, Task_vct, Task_wax} : RowsOf(t) = {}

C11_Witness ==
    /\ pc = "schedule"
    /\ p.floor_types = Text_VINYL
    /\ Cardinality(RowsOf(Task_vct)) = 1
    /\ Cardinality(RowsOf(Task_wax)) = 1
    /\ Cardinality(RowsOf(Task_mop)) = 1
    /\ RowsOf(Task_vacuum) = {}

\* C19: no row is marked both daily and weekly; the restroom, carpet-vacuum and
\* locker-room rows are daily iff days_per_week >= 3 and weekly iff it is 1 or
\* 2; the break-room/kitchen, dusting, glass, carpet spot-treat and damp-mop
\* rows are daily iff days_per_week >= 5 and weekly iff it is 1 to 4; and for
\* days_per_week >= 1 every emitted row has at least one frequency marked.
C19_Thresholds ==
    ScheduleComputed =>
        /\ \A i \in 1..Len(default_rows) : ~(Daily(i) /\ Weekly(i))
        /\ \A t \in {Task_restroom, Task_vacuum, Task_locker} : \A i \in RowsOf(t) :
              /\ Daily(i) <=> p.days_per_week >= 3
              /\ Weekly(i) <=> p.days_per_week \in {1, 2}
        /\ \A t \in {Task_breakroom, Task_dust, Task_glass, Task_spot, Task_mop} :
              \A i \in RowsOf(t) :
                  /\ Daily(i) <=> p.days_per_week >= 5
                  /\ Weekly(i) <=> p.days_per_week \in {1, 2, 3, 4}
        /\ p.days_per_week >= 1 =>
              \A i \in 1..Len(default_rows) : Daily(i) \/ Weekly(i) \/ Monthly(i)

C19_Witness ==
    /\ pc = "schedule"
    /\ p.days_per_week = 4
    /\ p.num_locker_rooms > 0
    /\ p.num_bathrooms > 0
    /\ p.floor_types = Text_CarpetTile
    /\ \E i \in RowsOf(Task_locker) : Daily(i) /\ ~Weekly(i)
    /\ \E i \in RowsOf(Task_mop) : Weekly(i) /\ ~Daily(i)
    /\ \E i \in RowsOf(Task_scrub) : Weekly(i) /\ Monthly(i)

-----------------------------------------------------------------------------
(* The Word document and the schedule conversion *)

DocxGenerated == docx.done

\* C14 as the specification states it: document generation never raises for
\* a missing style; when the document in use has no "List Bullet" style there
\* is still one item per service address, its text ending in the address
\* after a bullet-character prefix, and a document is returned.
C14_NoRaiseOnMissingStyle ==
    DocxGenerated =>
        /\ ~docx.raised
        /\ "List Bullet" \notin Document(files).styles =>
              LET a == clean_list(session.service_addresses)
              IN  a # << >> =>
                    /\ Len(docx.bullets) = Len(a)
                    /\ \A i \in 1..Len(a) : EndsWith(docx.bullets[i].text, a[i])

\* C15 as the specification states it: the document is built from a template
\* exactly when proposal_template.docx exists, the condition the sidebar's
\* indicator reports, and without that file docx_from_agreement returns a
\* document built from the default one without raising.
C15_TemplateIffIndicator ==
    DocxGenerated =>
        /\ (docx.template # "") <=> (indicator_path \in files.exists)
        /\ indicator_path \notin files.exists => ~docx.raised

\* a Task cell that is blank: empty, whitespace only, or never filled in
Blank(cell) == cell = None \/ strip(cell) = << >>

\* C17 as the specification states it: df_to_schedule_rows drops every row
\* whose Task is blank (empty, whitespace only or never filled in) and no
\* other row, so every row that reaches the document has a non-empty task.
C17_BlankTasksDropped ==
    pc = "docx" =>
        LET filled(r) == ~Blank(r.Task)
            keep == SelectSeq(session.schedule_df, filled)
        IN  /\ Len(tuned_schedule_rows) = Len(keep)
            /\ \A i \in 1..Len(tuned_schedule_rows) :
                  /\ tuned_schedule_rows[i][1] = strip(keep[i].Task)
                  /\ tuned_schedule_rows[i][1] # << >>

-----------------------------------------------------------------------------
(* Text extraction *)

\* the format the upload's name indicates
Indicated(f) ==
    IF EndsWith(lower(f.name), <<".","p","d","f">>) THEN "pdf"
    ELSE IF EndsWith(lower(f.name), <<".","d","o","c","x">>) THEN "docx"
    ELSE "text"

\* the bytes cannot be parsed in the format the name indicates (a UTF-8
\* decoder that ignores errors parses every byte string)
Unparseable(f) == Indicated(f) \in {"pdf", "docx"} /\ f.data.format # Indicated(f)

\* C18 as the specification states it: extract_text_from_upload returns a
\* string for every upload, and the empty string, with no exception, when
\* the content cannot be parsed in the format its name indicates.
C18_NeverRaises ==
    extracted.done =>
        /\ ~extracted.raised
        /\ Unparseable(upload) => extracted.text = << >>

-----------------------------------------------------------------------------
(* The two lists of the session *)

\* list b is list a without its entry i, the others in their order
Without(a, i, b) ==
    /\ Len(b) = Len(a) - 1
    /\ \A j \in 1..Len(b) : b[j] = IF j < i THEN a[j] ELSE a[j + 1]

\* what a click on the buttons of one list does to that list
ListStep(old, new, ev, add, remove, blank) ==
    /\ ev.click = add =>
          /\ Len(new) = Len(old) + 1
          /\ new[Len(new)] = blank
          /\ \A j \in 1..Len(old) : new[j] = old[j]
    /\ ev.click = remove =>
          IF Len(old) = 1 THEN new = old ELSE Without(old, ev.index, new)

\* C20: the service-address list and the add-on list always have at least
\* one entry; Add appends one blank entry at the end, Remove on entry i
\* deletes exactly entry i and keeps the order of the others, and Remove on
\* a list with a single entry changes nothing.
C20_ListsNeverEmpty ==
    /\ [](Len(session.service_addresses) >= 1 /\ Len(session.addons) >= 1)
    /\ [][ /\ ListStep(session.service_addresses, session'.service_addresses, event',
                        "add_addr", "remove_addr", Addr.empty)
           /\ ListStep(session.addons, session'.addons, event',
                        "add_addon", "remove_addon", [name |-> Name_empty, price |-> 0])
           /\ event'.click \in {"add_addr", "remove_addr"} => session'.addons = session.addons
           /\ event'.click \in {"add_addon", "remove_addon"} =>
                 session'.service_addresses = session.service_addresses ]_vars

\* the middle entry of three addresses has been removed
C20_Witness ==
    /\ event.click = "remove_addr" /\ event.index = 2 /\ event.outcome = "removed"
    /\ session.service_addresses = << Addr.A, Addr.padB >>

-----------------------------------------------------------------------------
(* The analyzer and the schedule table of the document *)

\* the table of editor rows that holds exactly the rows of an analysis
SameRows(df, rows) ==
    /\ Len(df) = Len(rows)
    /\ \A i \in 1..Len(rows) :
          /\ df[i].Task = rows[i].task
          /\ df[i].Daily = rows[i].daily
          /\ df[i].Weekly = rows[i].weekly
          /\ df[i].Monthly = rows[i].monthly

\* C12 as the specification states it: after Apply the cleaning-plan text is
\* exactly the analysis's cleaning_plan_draft and the session schedule is
\* exactly the analysis's schedule_rows, for every analysis object.
C12_Original ==
    [][event'.click = "apply" =>
          /\ session'.cleaning_plan_prefill = session.rfp_analysis[1].cleaning_plan_draft
          /\ SameRows(session'.schedule_df, session.rfp_analysis[1].schedule_rows)]_vars

\* C12, amended: after Apply the cleaning-plan prefill is exactly the
\* analysis's cleaning_plan_draft, and the session schedule is exactly the
\* analysis's schedule_rows (same tasks, flags and order, nothing of the
\* previous rows retained) when that list is not empty; when it is empty the
\* previous schedule is kept unchanged.
C12_ApplyReplaces ==
    [][event'.click = "apply" =>
          LET a == session.rfp_analysis[1]
          IN  /\ session'.cleaning_plan_prefill = a.cleaning_plan_draft
              /\ IF a.schedule_rows # << >>
                 THEN SameRows(session'.schedule_df, a.schedule_rows)
                 ELSE session'.schedule_df = session.schedule_df]_vars

\* Apply has put an analysis of one row and an empty cleaning-plan draft into the session
C12_Witness ==
    /\ event.click = "apply"
    /\ session.rfp_analysis # << >>
    /\ session.rfp_analysis[1].schedule_rows = << AiRow(Cell.Mop, TRUE, FALSE, FALSE) >>
    /\ session.schedule_df = << DfRow(Cell.Mop, TRUE, FALSE, FALSE) >>
    /\ session.cleaning_plan_prefill = << >>
    /\ session.notes_prefill = Draft.S

AnalyzeFailures == {"no_files", "extract_raised", "no_text", "no_key", "api_error", "bad_json"}

KeptIndices(df) == { i \in 1..Len(df) : strip(str(df[i].Task)) # << >> }
KthKept(df, k) ==
    CHOOSE i \in KeptIndices(df) : Cardinality({ j \in KeptIndices(df) : j < i }) = k - 1

DocumentProduced == docx.done /\ ~docx.raised

-----------------------------------------------------------------------------
(* Clearing the analysis *)

\* C22: "Clear analysis / prefills" removes the stored analysis and the three
\* prefills (cleaning plan, notes, cover letter), which are empty on the next
\* run, and leaves the session schedule, the service addresses and the
\* add-ons unchanged.
C22_ClearKeepsSchedule ==
    [][event'.click = "clear" =>
          /\ session'.rfp_analysis = << >>
          /\ session'.cleaning_plan_prefill = << >>
          /\ session'.notes_prefill = << >>
          /\ session'.cover_letter_body_prefill = << >>
          /\ session'.schedule_df = session.schedule_df
          /\ session'.service_addresses = session.service_addresses
          /\ session'.addons = session.addons
          /\ docx'.table = docx.table]_vars

\* the analysis is cleared and the one-row schedule an Apply installed is in
\* force, in the session and in the document
C22_Witness ==
    /\ event.click = "clear"
    /\ session.rfp_analysis = << >>
    /\ session.schedule_df = << DfRow(Cell.Mop, TRUE, FALSE, FALSE) >>
    /\ docx.done /\ ~docx.raised
    /\ docx.table = << HeaderRow, << Cell.Mop, CHECK, "", "" >> >>

-----------------------------------------------------------------------------
(* The schedule of the session under changing facility inputs *)

\* the recommended schedule for the inputs q, as a table of the editor
Recommended(q) == schedule_rows_to_df(compute_cleaning_schedule(q))

\* C21: the session schedule is seeded from the recommended schedule only
\* when the session has none (the first run); after that a change of a
\* facility input leaves the session schedule and the document's schedule
\* table unchanged; only a user edit, Reset (which sets it to the
\* recommendation for the current inputs) or an AI Apply changes it.
C21_ScheduleSticky ==
    [][ /\ pc = "start" => session'.schedule_df = Recommended(p')
        /\ (pc = "app" /\ event'.click \notin {"edit_schedule", "reset_schedule", "apply"}) =>
              /\ session'.schedule_df = session.schedule_df
              /\ docx'.table = docx.table
        /\ event'.click = "reset_schedule" => session'.schedule_df = Recommended(p') ]_vars

\* days per week was raised to 7: the recommendation has changed, the session
\* and the document still hold the schedule seeded for 5 days
C21_Witness ==
    /\ event.click = "facility" /\ event.outcome = "days_per_week"
    /\ p.days_per_week = 7
    /\ session.schedule_df = InitialSession.schedule_df
    /\ Recommended(p) # session.schedule_df
    /\ docx.table = << HeaderRow >> \o df_to_schedule_rows(InitialSession.schedule_df)

====
